---------------------------- MODULE Spec2Model ----------------------------
(***************************************************************************)
(* A model of bee-rs (src/src/lib.rs): the InvoiceBuilder that aggregates  *)
(* logged durations per project and derives an Invoice.                    *)
(*                                                                         *)
(* The program computes in f64.  TLC has no floating point and its         *)
(* integers are 32 bits wide, so an f64 is modelled exactly: a finite      *)
(* binary64 value is sgn * man * 2^exp with man an odd natural below 2^53, *)
(* kept as a little-endian sequence of 15-bit limbs, and every operation   *)
(* computes the exact result and rounds it to nearest, ties to even, as    *)
(* IEEE 754 does.  The two zeros are one value (they compare equal in      *)
(* Rust), and infinities, NaN and subnormals are outside the magnitudes    *)
(* the model reaches.                                                      *)
(***************************************************************************)
EXTENDS Integers, Sequences, FiniteSets, TLC

(***************************************************************************)
(* Natural numbers of any size: little-endian limbs, no leading zero limb. *)
(***************************************************************************)
Base == 2^15

RECURSIVE BNFromNat(_)
BNFromNat(n) == IF n = 0 THEN <<>> ELSE <<n % Base>> \o BNFromNat(n \div Base)

RECURSIVE BNNorm(_)
BNNorm(a) ==
    IF a = <<>> THEN <<>>
    ELSE IF a[Len(a)] = 0 THEN BNNorm(SubSeq(a, 1, Len(a) - 1))
    ELSE a

RECURSIVE BNAddC(_, _, _)
BNAddC(a, b, c) ==
    IF a = <<>> /\ b = <<>> THEN (IF c = 0 THEN <<>> ELSE <<c>>)
    ELSE LET x == IF a = <<>> THEN 0 ELSE Head(a)
             y == IF b = <<>> THEN 0 ELSE Head(b)
             s == x + y + c
         IN  <<s % Base>> \o BNAddC(IF a = <<>> THEN <<>> ELSE Tail(a),
                                     IF b = <<>> THEN <<>> ELSE Tail(b),
                                     s \div Base)

BNAdd(a, b) == BNAddC(a, b, 0)

\* a - b for a >= b, limb by limb with a borrow.
RECURSIVE BNSubB(_, _, _)
BNSubB(a, b, w) ==
    IF a = <<>> THEN <<>>
    ELSE LET y == IF b = <<>> THEN 0 ELSE Head(b)
             d == Head(a) - y - w
         IN  <<d % Base>> \o BNSubB(Tail(a),
                                     IF b = <<>> THEN <<>> ELSE Tail(b),
                                     IF d < 0 THEN 1 ELSE 0)

BNSub(a, b) == BNNorm(BNSubB(a, b, 0))

\* -1, 0, 1 as a < b, a = b, a > b.
RECURSIVE BNCmpFrom(_, _, _)
BNCmpFrom(a, b, i) ==
    IF i = 0 THEN 0
    ELSE IF a[i] < b[i] THEN -1
    ELSE IF a[i] > b[i] THEN 1
    ELSE BNCmpFrom(a, b, i - 1)

BNCmp(a, b) ==
    IF Len(a) < Len(b) THEN -1
    ELSE IF Len(a) > Len(b) THEN 1
    ELSE BNCmpFrom(a, b, Len(a))

RECURSIVE BNMulSmallC(_, _, _)
BNMulSmallC(a, k, c) ==
    IF a = <<>> THEN (IF c = 0 THEN <<>> ELSE <<c>>)
    ELSE LET p == Head(a) * k + c
         IN  <<p % Base>> \o BNMulSmallC(Tail(a), k, p \div Base)

\* a * k for 0 <= k < Base.
BNMulSmall(a, k) == IF k = 0 THEN <<>> ELSE BNMulSmallC(a, k, 0)

RECURSIVE BNMul(_, _)
BNMul(a, b) ==
    IF a = <<>> \/ b = <<>> THEN <<>>
    ELSE LET rest == BNMul(a, Tail(b))
         IN  BNAdd(BNMulSmall(a, Head(b)),
                   IF rest = <<>> THEN <<>> ELSE <<0>> \o rest)

\* floor(a / k) for 0 < k < Base, from the top limb down; r is the running remainder.
RECURSIVE BNDivSmallR(_, _, _, _)
BNDivSmallR(a, k, i, r) ==
    IF i = 0 THEN <<>>
    ELSE LET n == r * Base + a[i]
         IN  BNDivSmallR(a, k, i - 1, n % k) \o <<n \div k>>

BNDivSmall(a, k) == BNNorm(BNDivSmallR(a, k, Len(a), 0))

Zeros(n) == [i \in 1..n |-> 0]

\* a * 2^n.
BNShl(a, n) ==
    IF a = <<>> THEN <<>>
    ELSE Zeros(n \div 15) \o BNMulSmall(a, 2^(n % 15))

\* floor(a / 2^n).
BNShr(a, n) ==
    IF n \div 15 >= Len(a) THEN <<>>
    ELSE BNDivSmall(SubSeq(a, n \div 15 + 1, Len(a)), 2^(n % 15))

\* a mod 2^n.
BNLowBits(a, n) == BNSub(a, BNShl(BNShr(a, n), n))

RECURSIVE NatBitLen(_)
NatBitLen(n) == IF n = 0 THEN 0 ELSE 1 + NatBitLen(n \div 2)

BNBitLen(a) == IF a = <<>> THEN 0 ELSE (Len(a) - 1) * 15 + NatBitLen(a[Len(a)])

BNIsOdd(a) == a # <<>> /\ a[1] % 2 = 1

RECURSIVE NatTrailingZeros(_)
NatTrailingZeros(n) == IF n % 2 = 1 THEN 0 ELSE 1 + NatTrailingZeros(n \div 2)

RECURSIVE BNTrailingZeros(_)
BNTrailingZeros(a) ==
    IF a = <<>> THEN 0
    ELSE IF Head(a) = 0 THEN 15 + BNTrailingZeros(Tail(a))
    ELSE NatTrailingZeros(Head(a))

\* a mod k for 0 < k < Base.
RECURSIVE BNModSmallR(_, _, _, _)
BNModSmallR(a, k, i, r) ==
    IF i = 0 THEN r ELSE BNModSmallR(a, k, i - 1, (r * Base + a[i]) % k)

BNModSmall(a, k) == BNModSmallR(a, k, Len(a), 0)

(***************************************************************************)
(* f64.                                                                    *)
(***************************************************************************)
MantBits == 52 + 1

FZero == [sgn |-> 1, man |-> <<>>, exp |-> 0]

IsZero(a) == a.man = <<>>

\* The canonical form of s * m * 2^e: an odd mantissa.
FNorm(s, m, e) ==
    IF m = <<>> THEN FZero
    ELSE LET tz == BNTrailingZeros(m)
         IN  [sgn |-> s, man |-> BNShr(m, tz), exp |-> e + tz]

\* s * m * 2^e rounded to a 53-bit mantissa, to nearest, ties to even.
FRoundNearestEven(s, m, e) ==
    LET n == BNBitLen(m) IN
    IF n <= MantBits THEN FNorm(s, m, e)
    ELSE LET d    == n - MantBits
             q    == BNShr(m, d)
             r    == BNLowBits(m, d)
             half == BNShl(<<1>>, d - 1)
             c    == BNCmp(r, half)
             up   == c > 0 \/ (c = 0 /\ BNIsOdd(q))
         IN  FNorm(s, IF up THEN BNAdd(q, <<1>>) ELSE q, e + d)

FromInt(n) == FNorm(IF n < 0 THEN -1 ELSE 1, BNFromNat(IF n < 0 THEN -n ELSE n), 0)

FAdd(a, b) ==
    IF IsZero(a) THEN b
    ELSE IF IsZero(b) THEN a
    ELSE LET e  == IF a.exp < b.exp THEN a.exp ELSE b.exp
             x  == BNShl(a.man, a.exp - e)
             y  == BNShl(b.man, b.exp - e)
             c  == BNCmp(x, y)
         IN  IF a.sgn = b.sgn THEN FRoundNearestEven(a.sgn, BNAdd(x, y), e)
             ELSE IF c = 0 THEN FZero
             ELSE IF c > 0 THEN FRoundNearestEven(a.sgn, BNSub(x, y), e)
             ELSE FRoundNearestEven(b.sgn, BNSub(y, x), e)

FMul(a, b) ==
    IF IsZero(a) \/ IsZero(b) THEN FZero
    ELSE FRoundNearestEven(a.sgn * b.sgn, BNMul(a.man, b.man), a.exp + b.exp)

\* a / b for b # 0 whose odd mantissa fits one limb (the program divides only by
\* the literals 3600.0 and 100.0): the quotient to 56 bits or more, its last bit
\* set when the division left a remainder, then rounded.
FDiv(a, b) ==
    IF IsZero(a) THEN FZero
    ELSE LET gap == MantBits + 3 + BNBitLen(b.man) - BNBitLen(a.man)
             k   == IF gap > 0 THEN gap ELSE 0
             n   == BNShl(a.man, k)
             q   == BNDivSmall(n, b.man[1])
             m   == BNAdd(BNMulSmall(q, 2),
                          IF BNModSmall(n, b.man[1]) = 0 THEN <<>> ELSE <<1>>)
         IN  FRoundNearestEven(a.sgn * b.sgn, m, a.exp - b.exp - k - 1)

\* f64::round: to the nearest integer, half-way cases away from zero.
FRound(a) ==
    IF IsZero(a) \/ a.exp >= 0 THEN a
    ELSE LET d    == -a.exp
             q    == BNShr(a.man, d)
             r    == BNLowBits(a.man, d)
             half == BNShl(<<1>>, d - 1)
         IN  FNorm(a.sgn, IF BNCmp(r, half) >= 0 THEN BNAdd(q, <<1>>) ELSE q, 0)

FIsNeg(a) == ~IsZero(a) /\ a.sgn = -1

F100 == FromInt(100)
F3600 == FromInt(3600)

round_to_hundredth(num) == FDiv(FRound(FMul(num, F100)), F100)

(***************************************************************************)
(* Text.  A string is a sequence of one-character strings.                 *)
(***************************************************************************)
Colon == ":"

\* str::split(':'): the fields between the separators, at least one.
SepPositions(s) == {i \in 1..Len(s) : s[i] = Colon}

NthSep(s, k) ==
    IF k = 0 THEN 0
    ELSE IF k > Cardinality(SepPositions(s)) THEN Len(s) + 1
    ELSE CHOOSE i \in SepPositions(s) :
            Cardinality({j \in SepPositions(s) : j <= i}) = k

Split(s) ==
    [k \in 1..(Cardinality(SepPositions(s)) + 1) |->
        SubSeq(s, NthSep(s, k - 1) + 1, NthSep(s, k) - 1)]

Digits == <<"0", "1", "2", "3", "4", "5", "6", "7", "8", "9">>

IsDigit(c) == \E d \in 1..Len(Digits) : Digits[d] = c

DigitVal(c) == (CHOOSE d \in 1..Len(Digits) : Digits[d] = c) - 1

RECURSIVE DigitsMag(_)
DigitsMag(ds) ==
    IF ds = <<>> THEN <<>>
    ELSE BNAdd(BNMulSmall(DigitsMag(SubSeq(ds, 1, Len(ds) - 1)), 10),
               BNFromNat(DigitVal(ds[Len(ds)])))

\* The largest magnitudes of an i64: 2^63 - 1, and 2^63 for a negative number.
I64MaxMag == BNSub(BNShl(<<1>>, 63), <<1>>)
I64MinMag == BNShl(<<1>>, 63)

\* <i64 as FromStr>::from_str: an optional sign, then one decimal digit or more,
\* and an error when the value does not fit 64 bits.
ParseI64(s) ==
    LET signed == s # <<>> /\ s[1] \in {"+", "-"}
        neg    == s # <<>> /\ s[1] = "-"
        ds     == IF signed THEN Tail(s) ELSE s
        mag    == DigitsMag(ds)
    IN  IF ds = <<>> \/ \E i \in 1..Len(ds) : ~IsDigit(ds[i])
        THEN [ok |-> FALSE]
        ELSE IF BNCmp(mag, IF neg THEN I64MinMag ELSE I64MaxMag) > 0
        THEN [ok |-> FALSE]
        ELSE [ok |-> TRUE, neg |-> neg /\ mag # <<>>, mag |-> mag]

(***************************************************************************)
(* chrono::Duration, in whole seconds.  Duration::hours, ::minutes and     *)
(* ::seconds panic when the duration is beyond i64::MAX / 1000 seconds,    *)
(* and so does the sum of two durations.                                   *)
(***************************************************************************)
DurationMaxSecs == BNDivSmall(BNDivSmall(I64MaxMag, 100), 10)

RECURSIVE BNToNat(_)
BNToNat(a) == IF a = <<>> THEN 0 ELSE Head(a) + Base * BNToNat(Tail(a))

\* n * unit seconds as an integer, or out of range.
DurationOf(n, unit) ==
    LET secs == BNMulSmall(n.mag, unit)
    IN  IF BNCmp(secs, DurationMaxSecs) > 0 THEN [ok |-> FALSE]
        ELSE [ok |-> TRUE, secs |-> IF n.neg THEN -BNToNat(secs) ELSE BNToNat(secs)]

DurationAdd(a, b) ==
    IF ~a.ok \/ ~b.ok THEN [ok |-> FALSE]
    ELSE LET t == a.secs + b.secs
         IN  IF BNCmp(BNFromNat(IF t < 0 THEN -t ELSE t), DurationMaxSecs) > 0
             THEN [ok |-> FALSE]
             ELSE [ok |-> TRUE, secs |-> t]

ParseErr == [kind |-> "err"]
Panic    == [kind |-> "panic"]
Ok(secs) == [kind |-> "ok", secs |-> secs]

\* parse_duration_str, had it refused a string of more than three fields.
parse_duration_str_strict(str) ==
    LET time_parts == Split(str)
        hours      == ParseI64(time_parts[1])
        minutes    == ParseI64(time_parts[2])
        seconds    == ParseI64(time_parts[3])
        duration   == DurationAdd(DurationAdd(DurationOf(hours, 3600),
                                              DurationOf(minutes, 60)),
                                  DurationOf(seconds, 1))
    IN  IF Len(time_parts) # 3 \/ ~hours.ok \/ ~minutes.ok \/ ~seconds.ok THEN ParseErr
        ELSE IF ~duration.ok THEN Panic
        ELSE Ok(duration.secs)

\* InvoiceBuilder::parse_duration_str.  Indexing time_parts beyond its length panics;
\* a field that does not parse returns the error.
parse_duration_str(str) ==
    LET time_parts == Split(str)
        hours      == ParseI64(time_parts[1])
        minutes    == ParseI64(time_parts[2])
        seconds    == ParseI64(time_parts[3])
        duration   == DurationAdd(DurationAdd(DurationOf(hours, 3600),
                                              DurationOf(minutes, 60)),
                                  DurationOf(seconds, 1))
    IN  IF ~hours.ok THEN ParseErr
        ELSE IF Len(time_parts) < 2 THEN Panic
        ELSE IF ~minutes.ok THEN ParseErr
        ELSE IF Len(time_parts) < 3 THEN Panic
        ELSE IF ~seconds.ok THEN ParseErr
        ELSE IF ~duration.ok THEN Panic
        ELSE Ok(duration.secs)

(***************************************************************************)
(* InvoiceBuilder and Invoice.                                             *)
(***************************************************************************)
EmptyMap == [p \in {} |-> FZero]

\* Every order in which the keys of a HashMap may be iterated.
Orders(keys) ==
    {f \in [1..Cardinality(keys) -> keys] : \A k \in keys : \E i \in DOMAIN f : f[i] = k}

\* round_to_hundredth(duration.num_seconds() as f64 / 3600.0).
HoursOf(secs) == round_to_hundredth(FDiv(FromInt(secs), F3600))

\* add_project_duration, had it rounded the project's sum rather than the hours it
\* adds.
add_project_duration_rounding_sum(log, project, secs) ==
    IF project \in DOMAIN log
    THEN [log EXCEPT ![project] =
            round_to_hundredth(FAdd(@, FDiv(FromInt(secs), F3600)))]
    ELSE [p \in DOMAIN log \cup {project} |->
            IF p = project THEN HoursOf(secs) ELSE log[p]]

\* add_project_duration, had it taken the hours off a project's sum.
add_project_duration_subtracting(log, project, secs) ==
    IF project \in DOMAIN log
    THEN [log EXCEPT ![project] = FAdd(@, FMul(FromInt(-1), HoursOf(secs)))]
    ELSE [p \in DOMAIN log \cup {project} |->
            IF p = project THEN HoursOf(secs) ELSE log[p]]

add_project_duration(log, project, secs) ==
    IF project \in DOMAIN log
    THEN [log EXCEPT ![project] = FAdd(@, HoursOf(secs))]
    ELSE [p \in DOMAIN log \cup {project} |->
            IF p = project THEN HoursOf(secs) ELSE log[p]]

RECURSIVE collect_time_entries(_, _)
collect_time_entries(log, es) ==
    IF es = <<>> THEN log
    ELSE collect_time_entries(add_project_duration(log, es[1][1], es[1][2]), Tail(es))

\* Iterator::sum over the map's values, in the map's iteration order.
RECURSIVE SumValues(_, _)
SumValues(log, order) ==
    IF order = <<>> THEN FZero
    ELSE FAdd(SumValues(log, SubSeq(order, 1, Len(order) - 1)), log[order[Len(order)]])

\* build, had it left the tax as the product gives it.
build_unrounded_gst(log, order, pay, gst) ==
    LET total_time == round_to_hundredth(SumValues(log, order))
        subtotal   == round_to_hundredth(FMul(total_time, pay))
        tax        == FMul(subtotal, gst)
        total      == FAdd(subtotal, tax)
    IN  [project_hours_logged |-> log,
         total_time |-> total_time,
         subtotal   |-> subtotal,
         gst        |-> tax,
         total      |-> total,
         gst_rate   |-> gst,
         pay_rate   |-> pay]

build(log, order, pay, gst) ==
    LET total_time == round_to_hundredth(SumValues(log, order))
        subtotal   == round_to_hundredth(FMul(total_time, pay))
        tax        == round_to_hundredth(FMul(subtotal, gst))
        total      == FAdd(subtotal, tax)
    IN  [project_hours_logged |-> log,
         total_time |-> total_time,
         subtotal   |-> subtotal,
         gst        |-> tax,
         total      |-> total,
         gst_rate   |-> gst,
         pay_rate   |-> pay]

(***************************************************************************)
(* A CSV source: unreadable, or the records the csv reader splits it into, *)
(* each a sequence of fields, the header first.                            *)
(***************************************************************************)
\* records, had the first record of another number of fields ended the iteration.
records_until_broken(file) ==
    IF file.recs = <<>> THEN <<>>
    ELSE [i \in 1..(Len(file.recs) - 1) |->
            IF \A j \in 1..i : Len(file.recs[j + 1]) = Len(file.recs[1])
            THEN [ok |-> TRUE, rec |-> file.recs[i + 1]]
            ELSE [ok |-> FALSE]]

\* Reader::records with has_headers(true) and a reader that is not flexible: the
\* header sets the number of fields, it is not yielded, and a later record with
\* another number of fields is an error.
records(file) ==
    IF file.recs = <<>> THEN <<>>
    ELSE [i \in 1..(Len(file.recs) - 1) |->
            IF Len(file.recs[i + 1]) = Len(file.recs[1])
            THEN [ok |-> TRUE, rec |-> file.recs[i + 1]]
            ELSE [ok |-> FALSE]]

\* The closure of flat_map on one record: r[3] panics on a record of fewer than four
\* fields; flat_map iterates the closure's Result, so an Err yields no entry.
EntryOf(r) ==
    IF Len(r) < 4 THEN Panic
    ELSE LET d == parse_duration_str(r[4])
         IN  IF d.kind = "panic" THEN Panic
             ELSE IF d.kind = "err" THEN [kind |-> "ok", entries |-> <<>>]
             ELSE [kind |-> "ok", entries |-> << <<r[1], d.secs>> >>]

RECURSIVE EntriesOf(_)
EntriesOf(rs) ==
    IF rs = <<>> THEN [kind |-> "ok", entries |-> <<>>]
    ELSE IF ~rs[1].ok THEN EntriesOf(Tail(rs))
    ELSE LET e == EntryOf(rs[1].rec)
             t == EntriesOf(Tail(rs))
         IN  IF e.kind = "panic" \/ t.kind = "panic" THEN Panic
             ELSE [kind |-> "ok", entries |-> e.entries \o t.entries]

parse_csv_entries(file) == EntriesOf(records(file))

\* InvoiceBuilder::import_csv: the outcome and the map it leaves.
import_csv(log, file) ==
    IF ~file.readable THEN [kind |-> "err", log |-> log]
    ELSE LET entries == parse_csv_entries(file)
         IN  IF entries.kind = "panic" THEN [kind |-> "panic", log |-> log]
             ELSE [kind |-> "ok", log |-> collect_time_entries(log, entries.entries)]

(***************************************************************************)
(* The state.                                                              *)
(***************************************************************************)
VARIABLES
    project_hours_logged,  \* InvoiceBuilder.project_hours_logged
    iter_order,            \* the order in which that HashMap iterates its keys
    pay_rate,              \* InvoiceBuilder.pay_rate
    gst_rate,              \* InvoiceBuilder.gst_rate
    invoice,               \* the Invoice build returned last: <<>> or <<Invoice>>
    outcome,               \* how the call made last ended: "ok", "err" or "panic"
    n_ops,                 \* how many calls have added durations
    neg_seen,              \* whether a negative duration has been added
    entries,               \* the time entries a caller holds
    pos,                   \* how many of them it has passed on
    file,                  \* the CSV source a caller holds
    input,                 \* the string a caller passes to parse_duration_str
    parse_out,             \* what parse_duration_str returned
    num,                   \* the number a caller has rounded
    rounded                \* what the rounding returned

builderVars == <<project_hours_logged, iter_order, pay_rate, gst_rate>>
callerVars  == <<entries, pos, file, input, parse_out, num, rounded>>
vars == <<project_hours_logged, iter_order, pay_rate, gst_rate, invoice, outcome, n_ops,
          neg_seen, entries, pos, file, input, parse_out, num, rounded>>

(***************************************************************************)
(* Bounds and inputs.                                                      *)
(***************************************************************************)
MaxOps        == 2
MaxCalls      == 3
MaxRows       == 2
MaxImports    == 2
MaxFields     == 4
MaxThousandth == 20
MaxSeconds    == 600

BoundedSeq(S, n) == UNION {[1..k -> S] : k \in 0..n}

A == <<"A">>
B == <<"B">>
X == <<"x">>
Projects == {A, B}

\* Durations in seconds that callers add: 0.3 h, 0.145 h (a tie of the rounding)
\* and a negative duration.
Durations == {1080, 522, -360}

\* Tenths of an hour: 0.1 + 0.2 + 0.3 is where f64 addition stops being associative.
TenthDurations == {360, 720, 1080}

\* Args.pay_rate, and Args.gst when given.
PayRates == {FromInt(25), FDiv(FromInt(3333), F100)}
GstRates == {FDiv(FromInt(8), F100)}

\* Duration fields of a CSV source: 0:18:0, 0:8:42, -1:54:0 (each field carries its
\* own sign), 1::0 (an empty field) and 1:0 (two fields).
Text1080  == <<"0", ":", "1", "8", ":", "0">>
Text522   == <<"0", ":", "8", ":", "4", "2">>
TextNeg   == <<"-", "1", ":", "5", "4", ":", "0">>
TextEmpty == <<"1", ":", ":", "0">>
TextShort == <<"1", ":", "0">>
DurationTexts == {Text1080, Text522, TextNeg, TextEmpty, TextShort}

\* Records of three, four and five fields.
Rows ==
    {<<p, X, X>> : p \in Projects}
      \cup {<<p, X, X, d>> : p \in Projects, d \in DurationTexts}
      \cup {<<A, X, X, Text1080, X>>}

Headers == {<<X, X, X>>, <<X, X, X, X>>}

NoFile    == [readable |-> FALSE, recs |-> <<>>]
EmptyFile == [readable |-> TRUE, recs |-> <<>>]

Files(n) ==
    {NoFile, EmptyFile}
      \cup {[readable |-> TRUE, recs |-> <<h>> \o rs] : h \in Headers, rs \in BoundedSeq(Rows, n)}

\* Sources of one data row under a header of four fields.
OneRowFiles ==
    {NoFile} \cup {[readable |-> TRUE, recs |-> <<<<X, X, X, X>>, r>>] : r \in Rows}

\* Fields of a duration string: integers with and without a sign, text that is no
\* integer, and the ends of the i64 range.
I64MaxText   == <<"9", "2", "2", "3", "3", "7", "2", "0", "3", "6",
                  "8", "5", "4", "7", "7", "5", "8", "0", "7">>
I64AboveText == <<"9", "2", "2", "3", "3", "7", "2", "0", "3", "6",
                  "8", "5", "4", "7", "7", "5", "8", "0", "8">>
FieldTexts ==
    {<<>>, <<"5">>, <<"1", "6">>, <<"-", "1">>, <<"+", "0", "7">>, <<"x">>, <<"-">>,
     I64MaxText, I64AboveText}

RECURSIVE Join(_)
Join(fields) ==
    IF Len(fields) = 1 THEN fields[1]
    ELSE fields[1] \o <<Colon>> \o Join(Tail(fields))

Inputs == {Join(fs) : fs \in BoundedSeq(FieldTexts, MaxFields) \ {<<>>}}

NoOutput == [kind |-> "none"]

\* What the callers of the other specifications hold: nothing.
IdleCaller ==
    /\ entries = <<>> /\ pos = 0 /\ file = NoFile
    /\ input = <<>> /\ parse_out = NoOutput /\ num = 0 /\ rounded = NoOutput

\* InvoiceBuilder::new.
New(pay, gst) ==
    /\ project_hours_logged = EmptyMap
    /\ iter_order = <<>>
    /\ pay_rate = pay
    /\ gst_rate = gst
    /\ invoice = <<>>
    /\ outcome = "ok"
    /\ n_ops = 0
    /\ neg_seen = FALSE

NewBuilder == \E pay \in PayRates, gst \in GstRates \cup {FZero} : New(pay, gst)

\* Mutate, had build put the builder's own map in the Invoice and not a clone of it.
Mutate_shared(log) ==
    /\ project_hours_logged' = log
    /\ IF DOMAIN log = DOMAIN project_hours_logged
       THEN iter_order' = iter_order
       ELSE iter_order' \in Orders(DOMAIN log)
    /\ invoice' = IF invoice = <<>> THEN <<>>
                  ELSE <<[invoice[1] EXCEPT !.project_hours_logged = log]>>
    /\ UNCHANGED <<pay_rate, gst_rate>>

\* The map after a call that adds durations, and its iteration order: an insertion
\* may move every key (the table may grow), an update in place moves none.
Mutate(log) ==
    /\ project_hours_logged' = log
    /\ IF DOMAIN log = DOMAIN project_hours_logged
       THEN iter_order' = iter_order
       ELSE iter_order' \in Orders(DOMAIN log)
    /\ UNCHANGED <<pay_rate, gst_rate, invoice>>

HasNegative(es) == \E i \in DOMAIN es : es[i][2] < 0

\* A panic ends the program.
Alive == outcome # "panic"

(***************************************************************************)
(* Spec: the builder under any sequence of calls.  n_ops counts the        *)
(* durations added (the data rows, for an import) and MaxOps bounds them.  *)
(***************************************************************************)
Init == NewBuilder /\ IdleCaller

AddProjectDuration ==
    \E project \in Projects, secs \in Durations :
        /\ Alive /\ n_ops < MaxOps
        /\ Mutate(add_project_duration(project_hours_logged, project, secs))
        /\ outcome' = "ok"
        /\ n_ops' = n_ops + 1
        /\ neg_seen' = (neg_seen \/ secs < 0)
        /\ UNCHANGED callerVars

CollectTimeEntries ==
    \E es \in BoundedSeq(Projects \X Durations, MaxOps - n_ops) :
        /\ Alive
        /\ Mutate(collect_time_entries(project_hours_logged, es))
        /\ outcome' = "ok"
        /\ n_ops' = n_ops + Len(es)
        /\ neg_seen' = (neg_seen \/ HasNegative(es))
        /\ UNCHANGED callerVars

\* import_csv on source f.
ImportCsv(f) ==
    /\ Alive
    /\ Mutate(import_csv(project_hours_logged, f).log)
    /\ outcome' = import_csv(project_hours_logged, f).kind
    /\ n_ops' = n_ops + (IF f.recs = <<>> THEN 0 ELSE Len(f.recs) - 1)
    /\ neg_seen' = (neg_seen \/ (import_csv(project_hours_logged, f).kind = "ok"
                                  /\ HasNegative(parse_csv_entries(f).entries)))

ImportSource ==
    \E f \in OneRowFiles :
        /\ n_ops < MaxOps
        /\ ImportCsv(f)
        /\ UNCHANGED callerVars

Build ==
    /\ Alive
    /\ invoice' = <<build(project_hours_logged, iter_order, pay_rate, gst_rate)>>
    /\ outcome' = "ok"
    /\ UNCHANGED <<builderVars, n_ops, neg_seen, callerVars>>

Next == AddProjectDuration \/ CollectTimeEntries \/ ImportSource \/ Build

Spec == Init /\ [][Next]_vars

(***************************************************************************)
(* SpecCollect: a caller holding a list of time entries passes them on,    *)
(* one add_project_duration at a time or the rest in one                   *)
(* collect_time_entries; pos counts the entries passed.                    *)
(***************************************************************************)
InitCollect ==
    /\ NewBuilder
    /\ entries \in BoundedSeq(Projects \X TenthDurations, MaxCalls)
    /\ pos = 0 /\ file = NoFile
    /\ input = <<>> /\ parse_out = NoOutput /\ num = 0 /\ rounded = NoOutput

AddNext ==
    /\ pos < Len(entries)
    /\ Mutate(add_project_duration(project_hours_logged,
                                   entries[pos + 1][1], entries[pos + 1][2]))
    /\ outcome' = "ok"
    /\ pos' = pos + 1
    /\ UNCHANGED <<n_ops, neg_seen, entries, file, input, parse_out, num, rounded>>

CollectRest ==
    /\ pos < Len(entries)
    /\ Mutate(collect_time_entries(project_hours_logged,
                                   SubSeq(entries, pos + 1, Len(entries))))
    /\ outcome' = "ok"
    /\ pos' = Len(entries)
    /\ UNCHANGED <<n_ops, neg_seen, entries, file, input, parse_out, num, rounded>>

NextCollect == AddNext \/ CollectRest

SpecCollect == InitCollect /\ [][NextCollect]_vars

(***************************************************************************)
(* SpecImport: a caller imports the source it holds, up to MaxImports      *)
(* times.                                                                  *)
(***************************************************************************)
InitImport ==
    /\ New(FromInt(25), FZero)
    /\ file \in Files(MaxRows)
    /\ entries = <<>> /\ pos = 0
    /\ input = <<>> /\ parse_out = NoOutput /\ num = 0 /\ rounded = NoOutput

ImportFile ==
    /\ pos < MaxImports
    /\ ImportCsv(file)
    /\ pos' = pos + 1
    /\ UNCHANGED <<entries, file, input, parse_out, num, rounded>>

NextImport == ImportFile

SpecImport == InitImport /\ [][NextImport]_vars

(***************************************************************************)
(* SpecParse: parse_duration_str on any input.                             *)
(***************************************************************************)
InitParse ==
    /\ New(FromInt(25), FZero)
    /\ input \in Inputs
    /\ parse_out = NoOutput
    /\ entries = <<>> /\ pos = 0 /\ file = NoFile /\ num = 0 /\ rounded = NoOutput

ParseDurationStr ==
    /\ parse_out = NoOutput
    /\ parse_out' = parse_duration_str(input)
    /\ UNCHANGED <<builderVars, invoice, outcome, n_ops, neg_seen, entries, pos, file,
                   input, num, rounded>>

NextParse == ParseDurationStr

SpecParse == InitParse /\ [][NextParse]_vars

(***************************************************************************)
(* SpecRound: round_to_hundredth on num thousandths, and on num seconds    *)
(* as add_project_duration rounds them.                                    *)
(***************************************************************************)
F1000 == FromInt(1000)

InitRound ==
    /\ New(FromInt(25), FZero)
    /\ num \in -MaxSeconds..MaxSeconds
    /\ rounded = NoOutput
    /\ entries = <<>> /\ pos = 0 /\ file = NoFile /\ input = <<>> /\ parse_out = NoOutput

RoundThousandths ==
    /\ rounded = NoOutput
    /\ num \in -MaxThousandth..MaxThousandth
    /\ rounded' = [kind |-> "thousandths",
                   val |-> round_to_hundredth(FDiv(FromInt(num), F1000))]
    /\ UNCHANGED <<builderVars, invoice, outcome, n_ops, neg_seen, entries, pos, file,
                   input, parse_out, num>>

RoundSeconds ==
    /\ rounded = NoOutput
    /\ rounded' = [kind |-> "seconds", val |-> HoursOf(num)]
    /\ UNCHANGED <<builderVars, invoice, outcome, n_ops, neg_seen, entries, pos, file,
                   input, parse_out, num>>

NextRound == RoundThousandths \/ RoundSeconds

SpecRound == InitRound /\ [][NextRound]_vars

(***************************************************************************)
(* Claims about parse_duration_str, under SpecParse.                       *)
(***************************************************************************)
Parsed == parse_out # NoOutput

\* An optional sign and then one decimal digit or more: the text of an integer.
IsIntegerText(t) ==
    LET ds == IF t # <<>> /\ t[1] \in {"+", "-"} THEN Tail(t) ELSE t
    IN  ds # <<>> /\ \A i \in 1..Len(ds) : IsDigit(ds[i])

TextIsNegative(t) == t[1] = "-"

\* The magnitude of an integer text.
TextMag(t) == DigitsMag(IF t[1] \in {"+", "-"} THEN Tail(t) ELSE t)

\* Whether the integer, taken unit seconds each, is a duration chrono can hold; an
\* integer that is one fits i64 as well.
TextInRange(t, unit) == BNCmp(BNMulSmall(TextMag(t), unit), DurationMaxSecs) <= 0

TextValue(t) == IF TextIsNegative(t) THEN -BNToNat(TextMag(t)) ELSE BNToNat(TextMag(t))

FirstThreeAreIntegers(str) ==
    /\ Len(Split(str)) >= 3
    /\ \A k \in 1..3 : IsIntegerText(Split(str)[k])

\* C2: for every input with fewer than three colon-delimited fields, or whose first,
\* second or third field is no valid integer, parse_duration_str returns a
\* ParseError: it neither crashes nor returns a duration.
C2_MalformedInputIsParseError ==
    (Parsed /\ ~FirstThreeAreIntegers(input)) => parse_out = ParseErr

DurationsInRange(str) ==
    /\ TextInRange(Split(str)[1], 3600)
    /\ TextInRange(Split(str)[2], 60)
    /\ TextInRange(Split(str)[3], 1)
    /\ BNCmp(BNFromNat(LET t == TextValue(Split(str)[1]) * 3600
                                  + TextValue(Split(str)[2]) * 60
                                  + TextValue(Split(str)[3])
                       IN  IF t < 0 THEN -t ELSE t),
             DurationMaxSecs) <= 0

RoundHalfAway(n, d) ==
    IF n < 0 THEN -(((2 * (-n)) + d) \div (2 * d)) ELSE ((2 * n) + d) \div (2 * d)

\* k hundredths, as the f64 nearest to k / 100.
Hundredths(k) == FDiv(FromInt(k), F100)

\* C8: round_to_hundredth rounds to the nearest hundredth, a tie going away from
\* zero: num thousandths round to num / 10 rounded half away from zero, in
\* hundredths (0.004 to 0.00, 0.005 to 0.01, 0.006 to 0.01); and the value
\* add_project_duration adds for num whole seconds is num / 36 rounded half away
\* from zero to an integer, in hundredths.
C8_RoundsHalfAwayFromZero ==
    /\ rounded.kind = "thousandths" => rounded.val = Hundredths(RoundHalfAway(num, 10))
    /\ rounded.kind = "seconds" => rounded.val = Hundredths(RoundHalfAway(num, 36))

(***************************************************************************)
(* Claims about the accumulator, under SpecCollect.                        *)
(***************************************************************************)
\* The entries the caller has passed on.
Passed == SubSeq(entries, 1, pos)

\* The durations of the entries of es for project p, in the order of es.
RECURSIVE SecsFor(_, _)
SecsFor(es, p) ==
    IF es = <<>> THEN <<>>
    ELSE SecsFor(SubSeq(es, 1, Len(es) - 1), p)
           \o (IF es[Len(es)][1] = p THEN <<es[Len(es)][2]>> ELSE <<>>)

\* Zero, and to it each duration's hours, rounded on their own, one after another.
RECURSIVE SumOfRounded(_)
SumOfRounded(ds) ==
    IF ds = <<>> THEN FZero
    ELSE FAdd(SumOfRounded(SubSeq(ds, 1, Len(ds) - 1)),
              round_to_hundredth(FDiv(FromInt(ds[Len(ds)]), F3600)))

\* The totals of an Invoice.
Totals(inv) == <<inv.total_time, inv.subtotal, inv.gst, inv.total>>

\* The same entries, every one of them under project A.
AllUnderA(es) == [i \in DOMAIN es |-> <<A, es[i][2]>>]

\* The sequences that hold the entries of es in some order.
Reorderings(es) ==
    {[i \in DOMAIN es |-> es[f[i]]] : f \in Permutations(DOMAIN es)}

\* C5: collect_time_entries on a list leaves the builder as add_project_duration
\* on each entry in turn does, and the resulting map and Invoice are the same for
\* every order of the entries.
C5_CollectIsOrderInvariant ==
    pos = Len(entries) =>
        \A es \in Reorderings(entries) :
            /\ collect_time_entries(EmptyMap, es) = project_hours_logged
            /\ Totals(build(collect_time_entries(EmptyMap, es), iter_order,
                            pay_rate, gst_rate))
                 = Totals(build(project_hours_logged, iter_order, pay_rate, gst_rate))

\* C7: after any sequence of add_project_duration calls the map has exactly one
\* entry for each project passed, its value the sum of the hours of that project's
\* durations, each rounded on its own before it is added; and the totals of the
\* Invoice are those of the same durations added under a single project.
C7_OneEntryPerProject ==
    /\ DOMAIN project_hours_logged = {Passed[i][1] : i \in DOMAIN Passed}
    /\ \A p \in DOMAIN project_hours_logged :
           project_hours_logged[p] = SumOfRounded(SecsFor(Passed, p))
    /\ pos > 0 =>
           Totals(build(project_hours_logged, iter_order, pay_rate, gst_rate))
             = Totals(build(collect_time_entries(EmptyMap, AllUnderA(Passed)),
                            <<A>>, pay_rate, gst_rate))

\* Three calls, two of them for one project and one for the other.
C7_Witness ==
    /\ pos = 3
    /\ DOMAIN project_hours_logged = {A, B}
    /\ Len(SecsFor(Passed, A)) = 2
    /\ Passed[1][1] = A /\ Passed[2][1] = B

(***************************************************************************)
(* Claims about import_csv, under SpecImport.                              *)
(***************************************************************************)
\* The data rows of a source: every record after the header.
DataRows(f) == IF f.recs = <<>> THEN <<>> ELSE Tail(f.recs)

\* A data row of fewer than four fields, or whose duration field
\* parse_duration_str does not accept.
IsFatalRow(r) == Len(r) < 4 \/ parse_duration_str(r[4]).kind # "ok"

HasFatalRow(f) == \E i \in DOMAIN DataRows(f) : IsFatalRow(DataRows(f)[i])

\* C1: when a data row of the source has fewer than four fields or a duration
\* field that parse_duration_str rejects, import_csv returns an error and leaves
\* the map as it was before the call: no row of the source is accumulated.
C1_ImportIsAllOrNothing ==
    [][(ImportFile /\ file.readable /\ HasFatalRow(file)) =>
           (outcome' = "err" /\ project_hours_logged' = project_hours_logged)]_vars

\* A data row is broken at the CSV level when its number of fields differs from
\* the header's.
RECURSIVE WellFormedRows(_, _)
WellFormedRows(rs, width) ==
    IF rs = <<>> THEN <<>>
    ELSE (IF Len(rs[1]) = width THEN <<rs[1]>> ELSE <<>>)
           \o WellFormedRows(Tail(rs), width)

HasBrokenRow(f) ==
    \E i \in DOMAIN DataRows(f) : Len(DataRows(f)[i]) # Len(f.recs[1])

\* The source without its broken rows.
WithoutBrokenRows(f) ==
    IF f.recs = <<>> THEN f
    ELSE [f EXCEPT !.recs = <<f.recs[1]>> \o WellFormedRows(Tail(f.recs), Len(f.recs[1]))]

\* C9: import_csv skips a data row that is broken at the CSV level without a
\* word: the call ends as it ends on the source without that row, and leaves the
\* map that source leaves, so the row adds nothing and every other row is
\* accumulated as if the broken row were absent.
C9_BrokenRowIsSkipped ==
    [][ImportFile =>
           /\ outcome' = import_csv(project_hours_logged, WithoutBrokenRows(file)).kind
           /\ project_hours_logged'
                = import_csv(project_hours_logged, WithoutBrokenRows(file)).log]_vars

\* An import that succeeded on a source of a broken row and a well-formed one, and
\* accumulated the well-formed one.
C9_Witness ==
    /\ pos > 0 /\ outcome = "ok"
    /\ HasBrokenRow(file)
    /\ Len(WithoutBrokenRows(file).recs) = 2
    /\ DOMAIN project_hours_logged # {}

(***************************************************************************)
(* Claims about the builder under any sequence of calls, under Spec.       *)
(***************************************************************************)
Built == invoice # <<>>

\* C4: in the Invoice build returns, total_time is round_to_hundredth of the sum of
\* the map's values, in whatever order they are summed, subtotal is
\* round_to_hundredth(total_time * pay_rate), gst is
\* round_to_hundredth(subtotal * gst_rate) and total is subtotal + gst; built on an
\* empty map, the four are zero.
C4_InvoiceFields ==
    Built =>
        /\ \A order \in Orders(DOMAIN invoice[1].project_hours_logged) :
               invoice[1].total_time
                 = round_to_hundredth(SumValues(invoice[1].project_hours_logged, order))
        /\ invoice[1].pay_rate = pay_rate
        /\ invoice[1].gst_rate = gst_rate
        /\ invoice[1].subtotal = round_to_hundredth(FMul(invoice[1].total_time, pay_rate))
        /\ invoice[1].gst = round_to_hundredth(FMul(invoice[1].subtotal, gst_rate))
        /\ invoice[1].total = FAdd(invoice[1].subtotal, invoice[1].gst)
        /\ DOMAIN invoice[1].project_hours_logged = {} =>
               Totals(invoice[1]) = <<FZero, FZero, FZero, FZero>>

\* An Invoice of two projects with a tax that is not zero.
C4_Witness ==
    /\ Built
    /\ DOMAIN invoice[1].project_hours_logged = {A, B}
    /\ ~IsZero(invoice[1].gst)
    /\ invoice[1].total # invoice[1].subtotal

\* C6: build changes nothing of the builder and returns the Invoice of the map as
\* it is now; a build with no mutation since the last one returns an equal Invoice;
\* and a later call that is no build (add_project_duration, collect_time_entries,
\* import_csv) changes nothing of an Invoice already returned.
C6_BuildIsPure ==
    [][/\ Build =>
            /\ UNCHANGED builderVars
            /\ invoice'[1].project_hours_logged = project_hours_logged
            /\ (Built /\ invoice[1].project_hours_logged = project_hours_logged)
                  => invoice' = invoice
       /\ ~Build => invoice' = invoice]_vars

\* An Invoice returned before the map was changed: it holds one project, the map
\* holds two.
C6_Witness ==
    /\ Built
    /\ DOMAIN invoice[1].project_hours_logged = {A}
    /\ DOMAIN project_hours_logged = {A, B}

NoneNegative ==
    /\ \A p \in DOMAIN project_hours_logged : ~FIsNeg(project_hours_logged[p])
    /\ Built => ~FIsNeg(invoice[1].total_time)

\* C10 as stated: in every state reachable by add_project_duration,
\* collect_time_entries and import_csv, every value of the map is non-negative, and
\* so is the total_time of every Invoice built.
C10_NeverNegative == NoneNegative

\* C10, amended: as long as no duration added is negative, every value of the map
\* is non-negative, and so is the total_time of every Invoice built.
C10_NonNegativeDurationsStayNonNegative == ~neg_seen => NoneNegative

\* Two durations added for one project, none negative, and an Invoice built of
\* them.
C10_Witness ==
    /\ ~neg_seen /\ n_ops = 2
    /\ Built /\ invoice[1].project_hours_logged = project_hours_logged
    /\ DOMAIN project_hours_logged = {A}
    /\ ~IsZero(invoice[1].total_time)

=============================================================================
